---- MODULE Spec2Model ----
(***************************************************************************)
(* Model of iroha/src/maintenance.rs: System::scrape_metrics,              *)
(* Metrics::calculate and the disk, cpu and memory probes.                 *)
(*                                                                         *)
(* Every `.await` of the source is a step of its own, so that other        *)
(* callers and the environment (other processes changing the block store   *)
(* directory) interleave exactly where the code can be suspended.  The two *)
(* blocking calls of the disk loop, Path::is_file and Path::metadata, are  *)
(* two system calls and therefore two steps as well.                       *)
(*                                                                         *)
(* block_storage_size is a u64; the lengths used here keep every total far *)
(* below 2^64, so the wrap-around of `total_size +=` is outside the model. *)
(***************************************************************************)
EXTENDS Integers, Sequences, FiniteSets, TLC

\* ---------------------------------------------------------------- bounds
NumCalls == 2        \* callers that may run scrape_metrics concurrently
MaxEntries == 2      \* entries of the block store directory
MaxFileLen == 2      \* byte length of a file
MaxFsChanges == 1    \* changes other processes make to the directory

Callers == 1..NumCalls
FileLens == 1..MaxFileLen

\* ------------------------------------------------------------ the host
\* The five heim queries of cpu::Load::calculate and memory::Memory::calculate.
Queries == {"frequency", "stats", "time", "memory", "swap"}

\* The hosts considered, by the set of queries that fail on them: none, one
\* CPU query, one memory query, all of them.
FailingSets == {{}, {"frequency"}, {"swap"}, Queries}
Hosts == {[q \in Queries |-> q \notin failing] : failing \in FailingSets}

\* configuration.kura_configuration.kura_block_store_path
ConfigPath == "blocks"

\* Directory entries as the stream yields them.  kind "bad" is a position at
\* which the stream yields Err; statOk says whether stat(2) on the entry's
\* path succeeds (it fails when the file is gone or permission is denied);
\* kind and len are what a successful stat reports.  UnreadableEntry is a
\* regular file whose stat fails, so that its length is seen by nobody.
FileEntry(l) == [kind |-> "file", len |-> l, statOk |-> TRUE]
UnreadableEntry == [kind |-> "file", len |-> 0, statOk |-> FALSE]
DirEntry == [kind |-> "dir", len |-> MaxFileLen, statOk |-> TRUE]
BadEntry == [kind |-> "bad", len |-> 0, statOk |-> FALSE]
Entries == {FileEntry(l) : l \in FileLens} \cup {UnreadableEntry, DirEntry, BadEntry}

RECURSIVE SeqsUpTo(_, _)
SeqsUpTo(S, n) ==
    IF n = 0 THEN {<<>>}
    ELSE LET shorter == SeqsUpTo(S, n - 1)
         IN shorter \cup {Append(s, e) : s \in {t \in shorter : Len(t) = n - 1}, e \in S}

\* ------------------------------------------------------------ the values
None == <<>>
Some(v) == <<v>>

OkResult == "Ok"
ErrDirectory == "Failed to read block storage directoru"
ErrEntry == "Failed to retrieve entry path"
ErrMetadata == "Failed to get file metadata"
Pending == "pending"

\* Disk::default(), Load::default(), Memory::default(): derived Default.
DiskDefault == [block_storage_size |-> 0, block_storage_path |-> ""]
LoadDefault == [frequency |-> "", stats |-> "", time |-> ""]
CpuDefault == [load |-> LoadDefault]
MemoryDefault == [memory |-> "", swap |-> ""]
MetricsDefault == [cpu |-> CpuDefault, disk |-> DiskDefault, memory |-> MemoryDefault]

\* Disk::new
DiskNew(path) == [DiskDefault EXCEPT !.block_storage_path = path]

\* Metrics::new
MetricsNew(path) == [MetricsDefault EXCEPT !.disk = DiskNew(path)]

\* Variant of FormatDebug: an Err is rendered as the empty string.
FormatDebugErrEmpty(ok) == IF ok THEN "Ok(..)" ELSE ""

\* format!("{:?}", r) of a heim Result: the Result itself is formatted, so an
\* Err is rendered as text like an Ok.
FormatDebug(ok) == IF ok THEN "Ok(..)" ELSE "Err(..)"

\* String::is_empty
is_empty(s) == s = ""

\* Variant of CanReadDir: a failure to open the directory goes unnoticed.
CanReadDirUnchecked(f, path) == TRUE

\* tokio::fs::read_dir(path) succeeds
CanReadDir(f, path) == path = ConfigPath /\ f.dirOk

\* Variant of is_file: every entry that can be stat'ed counts.
is_file_or_dir(e) == e.statOk

\* Path::is_file: fs::metadata(path).map(|m| m.is_file()).unwrap_or(false)
is_file(e) == e.statOk /\ e.kind = "file"

\* total_size += len
AddLen(total, len) == total + len

\* Variant of StoreSize: the total is added to the size already held.
StoreSizeAdding(disk, total) == [disk EXCEPT !.block_storage_size = @ + total]

\* self.block_storage_size = total_size
StoreSize(disk, total) == [disk EXCEPT !.block_storage_size = total]

VARIABLES
    fs,          \* the block store directory: [dirOk, entries]
    host,        \* host[q]: whether heim query q succeeds
    fsVer,       \* number of changes made to the directory so far
    lastChange,  \* the most recent change: [op, len]
    pc,          \* pc[c]: where caller c's call is
    op,          \* op[c]: "scrape" (System::scrape_metrics) or "calculate"
    metrics,     \* metrics[c]: the Metrics value of the call, None if dropped
    total_size,  \* total_size[c]: the local of Disk::calculate
    stream,      \* stream[c]: [idx, upto] of the ReadDirStream
    result,      \* result[c]: what the call returned
    returned,    \* returned[c]: the snapshot scrape_metrics handed back
    started,     \* started[c]: probes started by the call, in order
    finished,    \* finished[c]: results of the probes that returned
    scanVer,     \* scanVer[c]: fsVer when the listing was opened
    scans,       \* scans[c]: the last undisturbed successful scan and the one before
    skipped,     \* skipped[c]: a file whose stat failed was passed over
    before       \* before[c]: the Metrics value when the call started

vars == <<fs, host, fsVer, lastChange, pc, op, metrics, total_size, stream,
          result, returned, started, finished, scanVer, scans, skipped, before>>

envVars == <<fs, host, fsVer, lastChange>>

NoVer == 0 - 1

\* The states of the directory.  A directory that cannot be opened (missing,
\* permission denied, not a directory) shows no entries to anyone.
Fs == {f \in [dirOk : BOOLEAN, entries : SeqsUpTo(Entries, MaxEntries)] :
         f.dirOk \/ f.entries = <<>>}

\* Bookkeeping for comparing successive scans.  A scan is undisturbed when
\* the directory did not change between read_dir and the end of the stream.
\* delta is 0 when the directory is the one the previous undisturbed scan
\* saw, n when exactly one file of n bytes was added since, NoVer otherwise.
NoScan == [ver |-> NoVer, size |-> 0, prevSize |-> 0, delta |-> NoVer]

NextScan(prev, opened, size) ==
    IF opened # fsVer THEN NoScan
    ELSE [ver |-> fsVer, size |-> size, prevSize |-> prev.size,
          delta |-> IF prev.ver = NoVer THEN NoVer
                    ELSE IF prev.ver = fsVer THEN 0
                    ELSE IF prev.ver + 1 = fsVer /\ lastChange.op = "add" THEN lastChange.len
                    ELSE NoVer]

IdleCaller(c) == pc[c] = "idle"
Listing(c) == pc[c] \in {"stream_next", "is_file", "metadata"}

\* The Metrics value caller c's call works on.
Cur(c) == metrics[c][1]

\* The entry the stream yielded last.
Entry(c) == fs.entries[stream[c].idx]

Init ==
    /\ fs \in Fs
    /\ host \in Hosts
    /\ fsVer = 0
    /\ lastChange = [op |-> "none", len |-> 0]
    /\ pc = [c \in Callers |-> "idle"]
    /\ op = [c \in Callers |-> "none"]
    /\ metrics = [c \in Callers |-> None]
    /\ total_size = [c \in Callers |-> 0]
    /\ stream = [c \in Callers |-> [idx |-> 0, upto |-> 0]]
    /\ result = [c \in Callers |-> Pending]
    /\ returned = [c \in Callers |-> None]
    /\ started = [c \in Callers |-> <<>>]
    /\ finished = [c \in Callers |-> <<>>]
    /\ scanVer = [c \in Callers |-> NoVer]
    /\ scans = [c \in Callers |-> NoScan]
    /\ skipped = [c \in Callers |-> FALSE]
    /\ before = [c \in Callers |-> None]

\* ------------------------------------------------- returning to the caller
\* Variant of ScrapeReturn: the Metrics value is returned whatever calculate said.
ScrapeReturnAlways(r, m) == Some(m)

\* scrape_metrics: `metrics.calculate().await?; Ok(metrics)`
ScrapeReturn(r, m) == IF r = OkResult THEN Some(m) ELSE None

\* The call of caller c returns r; m is the Metrics value it worked on.  A
\* scrape moves the value to the caller on Ok and drops it on Err; a caller
\* of Metrics::calculate keeps the value it passed by reference.
Return(c, r, m) ==
    /\ pc' = [pc EXCEPT ![c] = "idle"]
    /\ result' = [result EXCEPT ![c] = r]
    /\ returned' = [returned EXCEPT ![c] = IF op[c] = "scrape" THEN ScrapeReturn(r, m) ELSE None]
    /\ metrics' = [metrics EXCEPT ![c] = IF op[c] = "scrape" THEN ScrapeReturn(r, m) ELSE Some(m)]

\* Variant of Propagate: the result of the disk probe is discarded.
PropagateNever(r) == FALSE

\* The `?` of `self.disk.calculate().await?`: an Err leaves Metrics::calculate.
Propagate(r) == r # OkResult

\* Disk::calculate returned r and left the Disk value d.
DiskReturns(c, r, d) ==
    LET m == [Cur(c) EXCEPT !.disk = d] IN
    /\ finished' = [finished EXCEPT ![c] = Append(@, r)]
    /\ IF Propagate(r)
       THEN Return(c, r, m)
       ELSE /\ pc' = [pc EXCEPT ![c] = "cpu_frequency"]
            /\ metrics' = [metrics EXCEPT ![c] = Some(m)]
            /\ UNCHANGED <<result, returned>>

\* ------------------------------------------------------------ the callers
Begin(c, o, m) ==
    /\ pc' = [pc EXCEPT ![c] = "read_dir"]
    /\ op' = [op EXCEPT ![c] = o]
    /\ metrics' = [metrics EXCEPT ![c] = Some(m)]
    /\ before' = [before EXCEPT ![c] = Some(m)]
    /\ result' = [result EXCEPT ![c] = Pending]
    /\ returned' = [returned EXCEPT ![c] = None]
    /\ started' = [started EXCEPT ![c] = <<>>]
    /\ finished' = [finished EXCEPT ![c] = <<>>]
    /\ skipped' = [skipped EXCEPT ![c] = FALSE]
    /\ total_size' = [total_size EXCEPT ![c] = 0]
    /\ stream' = [stream EXCEPT ![c] = [idx |-> 0, upto |-> 0]]
    /\ scanVer' = [scanVer EXCEPT ![c] = NoVer]
    /\ UNCHANGED <<scans, envVars>>

\* System::scrape_metrics up to the first await: Metrics::new, then
\* Metrics::calculate and Disk::calculate are entered.
Scrape(c) ==
    /\ IdleCaller(c)
    /\ Begin(c, "scrape", MetricsNew(ConfigPath))

\* A caller builds a Metrics value of its own with Metrics::new.
NewMetrics(c) ==
    /\ IdleCaller(c)
    /\ metrics[c] # Some(MetricsNew(ConfigPath))
    /\ metrics' = [metrics EXCEPT ![c] = Some(MetricsNew(ConfigPath))]
    /\ op' = [op EXCEPT ![c] = "none"]
    /\ result' = [result EXCEPT ![c] = Pending]
    /\ returned' = [returned EXCEPT ![c] = None]
    /\ started' = [started EXCEPT ![c] = <<>>]
    /\ finished' = [finished EXCEPT ![c] = <<>>]
    /\ skipped' = [skipped EXCEPT ![c] = FALSE]
    /\ before' = [before EXCEPT ![c] = None]
    /\ UNCHANGED <<pc, total_size, stream, scanVer, scans, envVars>>

\* Metrics::calculate called on a value the caller holds, up to the first await.
Calculate(c) ==
    /\ IdleCaller(c)
    /\ metrics[c] # None
    /\ Begin(c, "calculate", Cur(c))

\* ------------------------------------------------------- Disk::calculate
\* `let mut total_size = 0; read_dir(&self.block_storage_path).await.wrap_err(..)?`
ReadDir(c) ==
    /\ pc[c] = "read_dir"
    /\ started' = [started EXCEPT ![c] = Append(@, "disk")]
    /\ total_size' = [total_size EXCEPT ![c] = 0]
    /\ scanVer' = [scanVer EXCEPT ![c] = fsVer]
    /\ IF CanReadDir(fs, Cur(c).disk.block_storage_path)
       THEN /\ stream' = [stream EXCEPT ![c] = [idx |-> 0, upto |-> Len(fs.entries)]]
            /\ pc' = [pc EXCEPT ![c] = "stream_next"]
            /\ UNCHANGED <<metrics, result, returned, finished>>
       ELSE /\ DiskReturns(c, ErrDirectory, Cur(c).disk)
            /\ UNCHANGED stream
    /\ UNCHANGED <<op, scans, skipped, before, envVars>>

\* `stream.next().await` yields Some(entry): `entry.wrap_err(..)?.path()`
StreamNext(c) ==
    /\ pc[c] = "stream_next"
    /\ stream[c].idx < stream[c].upto
    /\ stream' = [stream EXCEPT ![c].idx = @ + 1]
    /\ IF fs.entries[stream[c].idx + 1].kind = "bad"
       THEN DiskReturns(c, ErrEntry, Cur(c).disk)
       ELSE /\ pc' = [pc EXCEPT ![c] = "is_file"]
            /\ UNCHANGED <<metrics, result, returned, finished>>
    /\ UNCHANGED <<op, total_size, started, scanVer, scans, skipped, before, envVars>>

\* `stream.next().await` yields None: the loop ends,
\* `self.block_storage_size = total_size; Ok(())`
StreamEnd(c) ==
    /\ pc[c] = "stream_next"
    /\ stream[c].idx = stream[c].upto
    /\ DiskReturns(c, OkResult, StoreSize(Cur(c).disk, total_size[c]))
    /\ scans' = [scans EXCEPT ![c] =
                   NextScan(@, scanVer[c], StoreSize(Cur(c).disk, total_size[c]).block_storage_size)]
    /\ UNCHANGED <<op, total_size, stream, started, scanVer, skipped, before, envVars>>

\* `if path.is_file()`
IsFile(c) ==
    /\ pc[c] = "is_file"
    /\ pc' = [pc EXCEPT ![c] = IF is_file(Entry(c)) THEN "metadata" ELSE "stream_next"]
    /\ skipped' = [skipped EXCEPT ![c] = @ \/ (Entry(c).kind = "file" /\ ~Entry(c).statOk)]
    /\ UNCHANGED <<op, metrics, total_size, stream, result, returned, started,
                   finished, scanVer, scans, before, envVars>>

\* Variant of Metadata: total_size is one variable shared by all calls.
MetadataSharedTotal(c) ==
    /\ pc[c] = "metadata"
    /\ IF Entry(c).statOk
       THEN /\ total_size' = [k \in Callers |-> AddLen(total_size[c], Entry(c).len)]
            /\ pc' = [pc EXCEPT ![c] = "stream_next"]
            /\ UNCHANGED <<metrics, result, returned, finished>>
       ELSE /\ DiskReturns(c, ErrMetadata, Cur(c).disk)
            /\ UNCHANGED total_size
    /\ UNCHANGED <<op, stream, started, scanVer, scans, skipped, before, envVars>>

\* Variant of Metadata: the running total is written to block_storage_size
\* as the loop goes.
MetadataInPlace(c) ==
    /\ pc[c] = "metadata"
    /\ IF Entry(c).statOk
       THEN /\ total_size' = [total_size EXCEPT ![c] = AddLen(@, Entry(c).len)]
            /\ metrics' = [metrics EXCEPT ![c] =
                   Some([Cur(c) EXCEPT !.disk.block_storage_size =
                                          AddLen(total_size[c], Entry(c).len)])]
            /\ pc' = [pc EXCEPT ![c] = "stream_next"]
            /\ UNCHANGED <<result, returned, finished>>
       ELSE /\ DiskReturns(c, ErrMetadata, Cur(c).disk)
            /\ UNCHANGED total_size
    /\ UNCHANGED <<op, stream, started, scanVer, scans, skipped, before, envVars>>

\* `total_size += path.metadata().wrap_err(..)?.len()`
Metadata(c) ==
    /\ pc[c] = "metadata"
    /\ IF Entry(c).statOk
       THEN /\ total_size' = [total_size EXCEPT ![c] = AddLen(@, Entry(c).len)]
            /\ pc' = [pc EXCEPT ![c] = "stream_next"]
            /\ UNCHANGED <<metrics, result, returned, finished>>
       ELSE /\ DiskReturns(c, ErrMetadata, Cur(c).disk)
            /\ UNCHANGED total_size
    /\ UNCHANGED <<op, stream, started, scanVer, scans, skipped, before, envVars>>

\* -------------------------------------------------- cpu::Load::calculate
LocalStep(c, next, m) ==
    /\ pc' = [pc EXCEPT ![c] = next]
    /\ metrics' = [metrics EXCEPT ![c] = Some(m)]
    /\ UNCHANGED <<op, total_size, stream, result, returned, scanVer, scans,
                   skipped, before, envVars>>

\* `self.frequency = format!("{:?}", cpu::frequency().await)`
CpuFrequency(c) ==
    /\ pc[c] = "cpu_frequency"
    /\ started' = [started EXCEPT ![c] = Append(@, "cpu")]
    /\ UNCHANGED finished
    /\ LocalStep(c, "cpu_stats",
                 [Cur(c) EXCEPT !.cpu.load.frequency = FormatDebug(host["frequency"])])

\* `self.stats = format!("{:?}", cpu::stats().await)`
CpuStats(c) ==
    /\ pc[c] = "cpu_stats"
    /\ UNCHANGED <<started, finished>>
    /\ LocalStep(c, "cpu_time",
                 [Cur(c) EXCEPT !.cpu.load.stats = FormatDebug(host["stats"])])

\* `self.time = format!("{:?}", cpu::time().await); Ok(())`, and the `?` of
\* `self.cpu.calculate().await?` in Metrics::calculate, which sees Ok.
CpuTime(c) ==
    /\ pc[c] = "cpu_time"
    /\ finished' = [finished EXCEPT ![c] = Append(@, OkResult)]
    /\ UNCHANGED started
    /\ LocalStep(c, "memory_memory",
                 [Cur(c) EXCEPT !.cpu.load.time = FormatDebug(host["time"])])

\* ------------------------------------------------ memory::Memory::calculate
\* `self.memory = format!("{:?}", memory::memory().await)`
MemoryMemory(c) ==
    /\ pc[c] = "memory_memory"
    /\ started' = [started EXCEPT ![c] = Append(@, "memory")]
    /\ UNCHANGED finished
    /\ LocalStep(c, "memory_swap",
                 [Cur(c) EXCEPT !.memory.memory = FormatDebug(host["memory"])])

\* `self.swap = format!("{:?}", memory::swap().await); Ok(())`; then
\* Metrics::calculate returns Ok(()) and scrape_metrics returns Ok(metrics).
MemorySwap(c) ==
    /\ pc[c] = "memory_swap"
    /\ finished' = [finished EXCEPT ![c] = Append(@, OkResult)]
    /\ Return(c, OkResult, [Cur(c) EXCEPT !.memory.swap = FormatDebug(host["swap"])])
    /\ UNCHANGED <<op, total_size, stream, started, scanVer, scans, skipped,
                   before, envVars>>

\* -------------------------------------------------------- the environment
callVars == <<pc, op, metrics, total_size, result, returned, started, finished,
              scanVer, scans, skipped, before>>

\* Another process creates a regular file of l bytes in the directory.
\* Whether a listing that is already open yields the new entry is
\* unspecified (readdir); `see` is the set of open listings that do.
AddFile(l, see) ==
    /\ fsVer < MaxFsChanges
    /\ fs.dirOk
    /\ Len(fs.entries) < MaxEntries
    /\ \A c \in see : Listing(c) /\ stream[c].upto = Len(fs.entries)
    /\ fs' = [fs EXCEPT !.entries = Append(@, FileEntry(l))]
    /\ stream' = [c \in Callers |->
                    IF c \in see THEN [stream[c] EXCEPT !.upto = @ + 1] ELSE stream[c]]
    /\ fsVer' = fsVer + 1
    /\ lastChange' = [op |-> "add", len |-> l]
    /\ UNCHANGED <<host, callVars>>

\* Another process removes file i or revokes the permission to stat it: an
\* open listing still yields the entry, stat on its path fails from now on.
Revoke(i) ==
    /\ fsVer < MaxFsChanges
    /\ i \in 1..Len(fs.entries)
    /\ fs.entries[i].kind = "file"
    /\ fs.entries[i].statOk
    /\ fs' = [fs EXCEPT !.entries[i] = UnreadableEntry]
    /\ fsVer' = fsVer + 1
    /\ lastChange' = [op |-> "revoke", len |-> 0]
    /\ UNCHANGED <<host, stream, callVars>>

\* ------------------------------------------------------ specifications
Step(c) ==
    \/ ReadDir(c)
    \/ StreamNext(c)
    \/ StreamEnd(c)
    \/ IsFile(c)
    \/ Metadata(c)
    \/ CpuFrequency(c)
    \/ CpuStats(c)
    \/ CpuTime(c)
    \/ MemoryMemory(c)
    \/ MemorySwap(c)

\* One caller, scraping or recalculating a value it holds, while other
\* processes change the directory.
Next ==
    \/ Scrape(1)
    \/ NewMetrics(1)
    \/ Calculate(1)
    \/ Step(1)
    \/ \E l \in FileLens : \E see \in SUBSET {1} : AddFile(l, see)
    \/ \E i \in 1..MaxEntries : Revoke(i)

Spec == Init /\ [][Next]_vars

\* NumCalls calls of scrape_metrics on the same System, running concurrently;
\* the directory and the host do not change.
ConcNext == \E c \in Callers : (op[c] = "none" /\ Scrape(c)) \/ Step(c)

ConcSpec == Init /\ [][ConcNext]_vars

\* ------------------------------------------------------------ properties
Probes == <<"disk", "cpu", "memory">>
Errors == {ErrDirectory, ErrEntry, ErrMetadata}

\* The call of caller c has returned.
Done(c) == pc[c] = "idle" /\ result[c] # Pending

\* Disk::calculate of the current call returned Ok.
DiskOk(c) == Len(finished[c]) >= 1 /\ finished[c][1] = OkResult

Size(c) == Cur(c).disk.block_storage_size

\* C1: scrape_metrics returns either an error and no snapshot, or a snapshot
\* for which all three probes ran and returned Ok in that call; while the call
\* is running nothing has been returned.
C1_AllOrNothing ==
    \A c \in Callers : op[c] = "scrape" =>
        /\ ~Done(c) => returned[c] = None
        /\ Done(c) =>
             \/ result[c] \in Errors /\ returned[c] = None
             \/ /\ result[c] = OkResult
                /\ returned[c] # None
                /\ started[c] = Probes
                /\ finished[c] = <<OkResult, OkResult, OkResult>>

C1_Witness ==
    \E c \in Callers :
        /\ op[c] = "scrape" /\ Done(c)
        /\ result[c] = ErrMetadata /\ returned[c] = None
        /\ total_size[c] > 0

\* C2: when a CPU or memory query of the host fails, the call in which it was
\* made returns an error and no snapshot.
C2_OsFailurePropagates ==
    \A c \in Callers :
        (Done(c) /\ Len(started[c]) >= 2 /\ \E q \in Queries : ~host[q])
            => result[c] # OkResult /\ returned[c] = None

RECURSIVE SumFiles(_)
SumFiles(es) ==
    IF es = <<>> THEN 0
    ELSE (IF Head(es).kind = "file" THEN Head(es).len ELSE 0) + SumFiles(Tail(es))

AllReadable(f) ==
    f.dirOk /\ \A i \in 1..Len(f.entries) : f.entries[i].kind # "bad" /\ f.entries[i].statOk

\* C3: after a successful Disk::calculate over a directory that did not
\* change during the scan and whose entries are all readable,
\* block_storage_size is the sum of the lengths of the regular files of the
\* directory; subdirectories contribute 0.
C3_SizeIsSumOfFiles ==
    \A c \in Callers :
        (metrics[c] # None /\ DiskOk(c) /\ scanVer[c] = fsVer /\ AllReadable(fs))
            => Size(c) = SumFiles(fs.entries)

C3_Witness ==
    \E c \in Callers :
        /\ metrics[c] # None /\ DiskOk(c) /\ scanVer[c] = fsVer /\ AllReadable(fs)
        /\ \E i, j \in 1..Len(fs.entries) :
               fs.entries[i].kind = "file" /\ fs.entries[j].kind = "dir"
        /\ Size(c) > 0

\* C4: when the directory cannot be opened, the read_dir step ends the call
\* with the directory error, no entry has been examined, and the caller gets
\* no snapshot.
C4_DirectoryUnreadable ==
    [][\A c \in Callers :
          (pc[c] = "read_dir" /\ pc'[c] # "read_dir" /\ ~fs.dirOk) =>
              /\ pc'[c] = "idle"
              /\ result'[c] = ErrDirectory
              /\ returned'[c] = None
              /\ stream'[c].idx = 0
              /\ started'[c] = <<"disk">>]_vars

C4_Witness ==
    \E c \in Callers :
        /\ op[c] = "scrape" /\ Done(c) /\ ~fs.dirOk
        /\ result[c] = ErrDirectory /\ returned[c] = None

\* C5: the probes are started in the order disk, cpu, memory; a probe is
\* started only after every earlier probe returned Ok, and a call that
\* returns an error returns the error of the last probe it started.
C5_ProbeOrder ==
    \A c \in Callers :
        /\ Len(started[c]) <= Len(Probes)
        /\ started[c] = SubSeq(Probes, 1, Len(started[c]))
        /\ Len(finished[c]) <= Len(started[c])
        /\ Len(started[c]) <= Len(finished[c]) + 1
        /\ \A i \in 1..(Len(started[c]) - 1) : finished[c][i] = OkResult
        /\ (Done(c) /\ result[c] # OkResult) =>
               /\ Len(finished[c]) = Len(started[c])
               /\ finished[c][Len(finished[c])] = result[c]

C5_Witness ==
    \E c \in Callers :
        /\ Done(c) /\ result[c] = ErrEntry
        /\ started[c] = <<"disk">>
        /\ stream[c].idx > 1

RECURSIVE SoloWalk(_, _, _)
SoloWalk(es, n, i) ==
    IF i > n THEN [res |-> OkResult, size |-> 0]
    ELSE IF es[i].kind = "bad" THEN [res |-> ErrEntry, size |-> 0]
    ELSE LET rest == SoloWalk(es, n, i + 1)
             mine == IF es[i].kind = "file" /\ es[i].statOk THEN es[i].len ELSE 0
         IN IF rest.res = OkResult THEN [res |-> OkResult, size |-> mine + rest.size]
            ELSE rest

SoloSnapshot(size) ==
    [cpu |-> [load |-> [frequency |-> FormatDebug(host["frequency"]),
                        stats |-> FormatDebug(host["stats"]),
                        time |-> FormatDebug(host["time"])]],
     disk |-> [block_storage_size |-> size, block_storage_path |-> ConfigPath],
     memory |-> [memory |-> FormatDebug(host["memory"]),
                 swap |-> FormatDebug(host["swap"])]]

SoloScrape ==
    IF ~fs.dirOk THEN [result |-> ErrDirectory, returned |-> None]
    ELSE LET w == SoloWalk(fs.entries, Len(fs.entries), 1)
         IN IF w.res = OkResult
            THEN [result |-> OkResult, returned |-> Some(SoloSnapshot(w.size))]
            ELSE [result |-> w.res, returned |-> None]

\* Entries 1..n of the directory, bad entries aside, summed as one call does.
OwnTotal(c) ==
    LET n == IF pc[c] \in {"is_file", "metadata"} THEN stream[c].idx - 1 ELSE stream[c].idx
    IN SoloWalk(fs.entries, n, 1).size

Locals(c) == <<pc[c], op[c], metrics[c], total_size[c], stream[c], result[c],
               returned[c], started[c], finished[c]>>

\* C6: whatever the interleaving, a call returns what one call running alone
\* over the same directory and host returns, its running total is the total
\* of the entries it has itself passed, and a step of one call leaves every
\* variable of every other call unchanged.
C6_Independent ==
    /\ [](\A c \in Callers :
            /\ Done(c) => result[c] = SoloScrape.result /\ returned[c] = SoloScrape.returned
            /\ Listing(c) => total_size[c] = OwnTotal(c))
    /\ [][\A c \in Callers : pc'[c] = pc[c] => Locals(c)' = Locals(c)]_vars

C6_Witness ==
    \E c, d \in Callers :
        /\ c # d
        /\ Done(c) /\ result[c] = OkResult /\ Size(c) > 0
        /\ Listing(d) /\ total_size[d] > 0 /\ total_size[d] < Size(c)

\* C7: a Disk::calculate that passed over a regular file whose metadata
\* could not be read does not return Ok.
C7_UnreadableNotSkipped ==
    \A c \in Callers : DiskOk(c) => ~skipped[c]

CpuFilled(m) ==
    /\ ~is_empty(m.cpu.load.frequency)
    /\ ~is_empty(m.cpu.load.stats)
    /\ ~is_empty(m.cpu.load.time)

MemoryFilled(m) == ~is_empty(m.memory.memory) /\ ~is_empty(m.memory.swap)

\* C8: after a successful call the CPU and memory strings are non-empty; so
\* are the CPU strings once cpu's calculate returned Ok and the memory strings
\* once memory's calculate returned Ok.
C8_StringsNonEmpty ==
    \A c \in Callers :
        /\ returned[c] # None => CpuFilled(returned[c][1]) /\ MemoryFilled(returned[c][1])
        /\ (metrics[c] # None /\ Len(finished[c]) >= 2) => CpuFilled(Cur(c))
        /\ (metrics[c] # None /\ Len(finished[c]) >= 3) => MemoryFilled(Cur(c))

C8_Witness ==
    \E c \in Callers :
        /\ op[c] = "scrape" /\ Done(c) /\ returned[c] # None
        /\ ~host["swap"] /\ host["memory"]

\* C9: an undisturbed successful scan over the directory the previous one saw
\* yields the same size, whatever the Disk held before, and after one file of
\* n bytes was added it yields a size larger by exactly n.
C9_ReplacesNotAccumulates ==
    \A c \in Callers :
        scans[c].delta # NoVer => scans[c].size = scans[c].prevSize + scans[c].delta

C9_Witness ==
    \E c \in Callers :
        /\ op[c] = "calculate" /\ Done(c) /\ result[c] = OkResult
        /\ scans[c].delta > 0 /\ scans[c].prevSize > 0
        /\ before[c][1].disk.block_storage_size = scans[c].prevSize

\* C10: while Disk::calculate runs, and after it failed, the Disk value is
\* the one the call started with; block_storage_path is the configured path
\* in every Metrics value.
C10_FailureLeavesDisk ==
    \A c \in Callers :
        /\ metrics[c] # None => Cur(c).disk.block_storage_path = ConfigPath
        /\ (pc[c] = "read_dir" \/ Listing(c)) => Cur(c).disk = before[c][1].disk
        /\ (op[c] = "calculate" /\ Done(c) /\ result[c] \in Errors) => Cur(c) = before[c][1]

C10_Witness ==
    \E c \in Callers :
        /\ op[c] = "calculate" /\ Done(c) /\ result[c] \in {ErrEntry, ErrMetadata}
        /\ total_size[c] > 0
        /\ Size(c) > 0
        /\ Size(c) # total_size[c]
====
